---- MODULE Spec2Model ----
(***************************************************************************)
(* Model of src/app.py: the WACC calculator (calculate_wacc), the metrics  *)
(* fetcher (fetch_ticker_metrics, _extract_total_debt,                     *)
(* _get_first_balance_sheet, _normalize_label), the 5-minute cache put on  *)
(* the fetcher by @st.cache_data(ttl=300), and the form's submit handler.  *)
(*                                                                         *)
(* Python floats are IEEE-754 binary64.  They are modelled exactly: a      *)
(* finite float is sign, 53-bit significand and exponent, the significand  *)
(* held as a little-endian sequence of limbs (TLC's integers have 32 bits),*)
(* and +, -, *, / round to nearest, ties to even, with gradual underflow   *)
(* and overflow to infinity, as the hardware does.                         *)
(***************************************************************************)
EXTENDS Integers, Sequences, FiniteSets, TLC

\* ------------------------------------------------------------------------
\* Natural numbers of any size: little-endian limbs, no high zero limb.
\* ------------------------------------------------------------------------

LimbBase == 2^12
LimbBits == 12

Max2(a, b) == IF a >= b THEN a ELSE b
Min2(a, b) == IF a <= b THEN a ELSE b

\* F(x), with x computed first (an operator's arguments are otherwise
\* computed where the operator first uses them)
Bind(x, F(_)) == CHOOSE r \in {F(v) : v \in {x}} : TRUE

\* x without its high zero limbs
BTrim(x) ==
    LET nz == {i \in 1..Len(x) : x[i] # 0}
    IN  IF nz = {} THEN <<>>
        ELSE SubSeq(x, 1, CHOOSE i \in nz : \A j \in nz : j <= i)

BLimb(a, i) == IF i <= Len(a) THEN a[i] ELSE 0

\* a + b: limb sums, then the carries (a carry enters limb i when a lower
\* limb overflows and every limb between is full)
BAdd(a, b) ==
    LET n == Max2(Len(a), Len(b))
        s == [i \in 1..n |-> BLimb(a, i) + BLimb(b, i)]
        c == [i \in 1..(n + 1) |->
                IF \E j \in 1..(i - 1) :
                      /\ s[j] >= LimbBase
                      /\ \A k \in (j + 1)..(i - 1) : s[k] = LimbBase - 1
                THEN 1 ELSE 0]
    IN  BTrim([i \in 1..(n + 1) |->
                 IF i <= n THEN (s[i] + c[i]) % LimbBase ELSE c[i]])

\* a - b for a >= b: limb differences, then the borrows
BSub(a, b) ==
    LET d == [i \in 1..Len(a) |-> a[i] - BLimb(b, i)]
        w == [i \in 1..Len(a) |->
                IF \E j \in 1..(i - 1) :
                      /\ d[j] < 0
                      /\ \A k \in (j + 1)..(i - 1) : d[k] = 0
                THEN 1 ELSE 0]
    IN  BTrim([i \in 1..Len(a) |-> (d[i] - w[i] + LimbBase) % LimbBase])

\* -1, 0, 1 as a < b, a = b, a > b
BCmp(a, b) ==
    IF Len(a) < Len(b) THEN 0 - 1
    ELSE IF Len(a) > Len(b) THEN 1
    ELSE LET df == {i \in 1..Len(a) : a[i] # b[i]}
         IN  IF df = {} THEN 0
             ELSE LET t == CHOOSE i \in df : \A j \in df : j <= i
                  IN  IF a[t] < b[t] THEN 0 - 1 ELSE 1

BIsOdd(a) == a # <<>> /\ a[1] % 2 = 1

SmallBitLen(n) == CHOOSE k \in 0..LimbBits : n < 2^k /\ (k = 0 \/ n >= 2^(k - 1))

BBitLen(a) ==
    IF a = <<>> THEN 0 ELSE LimbBits * (Len(a) - 1) + SmallBitLen(a[Len(a)])

\* a * d for one limb d
BMulLimb(a, d) ==
    BAdd(BTrim([i \in 1..Len(a) |-> (a[i] * d) % LimbBase]),
         BTrim([i \in 1..(Len(a) + 1) |->
                  IF i = 1 THEN 0 ELSE (a[i - 1] * d) \div LimbBase]))

\* a * LimbBase^k
BShlLimbs(a, k) == IF a = <<>> THEN <<>> ELSE [i \in 1..k |-> 0] \o a

\* a * 2^k
BShl(a, k) == BMulLimb(BShlLimbs(a, k \div LimbBits), 2^(k % LimbBits))

\* floor(a / 2^k), and whether a nonzero bit was shifted out
BShr(a, k) ==
    LET w == k \div LimbBits
        r == k % LimbBits
    IN  IF w >= Len(a) THEN [n |-> <<>>, sticky |-> a # <<>>]
        ELSE LET t == SubSeq(a, w + 1, Len(a))
             IN  [n |-> BTrim([i \in 1..Len(t) |->
                                 (t[i] \div 2^r)
                                 + (BLimb(t, i + 1) % 2^r) * 2^(LimbBits - r)]),
                  sticky |-> (\E i \in 1..w : a[i] # 0) \/ t[1] % 2^r # 0]

BHalf(a) == BShr(a, 1).n

\* a * b, for b of at most 5 limbs (a float's significand)
BMul(a, b) ==
    IF b = <<>> \/ a = <<>> THEN <<>>
    ELSE LET part(i) == BShlLimbs(BMulLimb(a, BLimb(b, i)), i - 1)
         IN  Bind(BAdd(part(1), part(2)), LAMBDA s2 :
             Bind(BAdd(s2, part(3)), LAMBDA s3 :
             Bind(BAdd(s3, part(4)), LAMBDA s4 : BAdd(s4, part(5)))))

\* Long division by b, a number of exactly MantBits bits, one more limb:
\* acc is the quotient and remainder of the limbs above.  The quotient's
\* next limb is estimated from the leading limbs of the running remainder
\* and of b; b's two leading limbs hold 17 bits, so the estimate is off by
\* one at most, and the largest candidate that fits is the limb.
BDivStep(acc, b, limb) ==
    LET run == BTrim(<<limb>> \o acc.r)
        lb == Len(b)
        bt == b[lb] * LimbBase + b[lb - 1]
        rt == BLimb(run, lb - 1) + BLimb(run, lb) * LimbBase
              + BLimb(run, lb + 1) * LimbBase * LimbBase
        est == rt \div bt
        fits == {d \in {est - 1, est, est + 1} :
                   /\ d >= 0
                   /\ d < LimbBase
                   /\ BCmp(BMulLimb(b, d), run) <= 0}
        digit == CHOOSE d \in fits : \A o \in fits : o <= d
    IN  [q |-> <<digit>> \o acc.q, r |-> BSub(run, BMulLimb(b, digit))]

\* the limbs i, i-1, .. 1 of a, from the highest down; each step's result
\* is computed before the next step starts
RECURSIVE BDivLoop(_, _, _, _)
BDivLoop(a, b, i, acc) ==
    IF i = 0 THEN acc
    ELSE CHOOSE res \in {BDivLoop(a, b, i - 1, st) :
                           st \in {BDivStep(acc, b, a[i])}} : TRUE

\* quotient and remainder of a by b, for b of exactly MantBits bits and a
\* at least as long as b: the limbs of a above b's length are below b
BDivMod(a, b) ==
    LET top == Len(a) - Len(b) + 1
        res == BDivLoop(a, b, top,
                        [q |-> <<>>, r |-> SubSeq(a, top + 1, Len(a))])
    IN  [q |-> BTrim(res.q), r |-> res.r]

\* ------------------------------------------------------------------------
\* Python values: None, and floats (binary64).  Every value is a record of
\* the same shape so that any two can be compared:
\*   k = "none"  Python's None
\*   k = "nan"   not-a-number
\*   k = "inf"   infinity of sign s
\*   k = "fin"   (-1)^s * m * 2^e, m a natural number; normal when m has 53
\*               bits, subnormal or zero when e = EMin and m has fewer
\*   k = "raise" the evaluation raised an exception
\* ------------------------------------------------------------------------

MantBits == 53
EMin == 0 - 1074
EMaxNormal == 971

None == [k |-> "none", s |-> 0, m |-> <<>>, e |-> 0]
NaN == [k |-> "nan", s |-> 0, m |-> <<>>, e |-> 0]
Raise == [k |-> "raise", s |-> 0, m |-> <<>>, e |-> 0]
Inf(sg) == [k |-> "inf", s |-> sg, m |-> <<>>, e |-> 0]
Fin(sg, mant, ex) == [k |-> "fin", s |-> sg, m |-> mant, e |-> ex]
Zero == Fin(0, <<>>, EMin)

IsNone(x) == x.k = "none"
IsNaN(x) == x.k = "nan"
IsRaise(x) == x.k = "raise"
IsFin(x) == x.k = "fin"
IsInf(x) == x.k = "inf"
IsZero(x) == x.k = "fin" /\ x.m = <<>>
IsNum(x) == x.k \in {"fin", "inf", "nan"}

\* The float nearest to (-1)^sg * (n + f) * 2^ex, where 0 < f < 1 when sticky
\* and f = 0 otherwise: round half to even, subnormals below 2^-1022,
\* infinity from 2^1024.  With sticky, n carries at least two bits more than
\* the result keeps.
RoundFloat(sg, n, ex, sticky) ==
    LET len == BBitLen(n)
        shift == Max2(len - MantBits, EMin - ex)
    IN  IF shift <= 0
        THEN LET up == Min2(MantBits - len, ex - EMin)
             IN  IF n = <<>> THEN Fin(sg, <<>>, EMin)
                 ELSE IF ex - up > EMaxNormal THEN Inf(sg)
                 ELSE Fin(sg, BShl(n, up), ex - up)
        ELSE Bind(BShr(n, shift - 1), LAMBDA q1 :
             Bind(BHalf(q1.n), LAMBDA q :
             LET guard == BIsOdd(q1.n)
                 rest == q1.sticky \/ sticky
             IN  Bind(IF guard /\ (rest \/ BIsOdd(q))
                      THEN BAdd(q, <<1>>) ELSE q, LAMBDA m1 :
                 LET carry == BBitLen(m1) > MantBits
                     m2 == IF carry THEN BHalf(m1) ELSE m1
                     e2 == IF carry THEN ex + shift + 1 ELSE ex + shift
                 IN  IF BBitLen(m2) = MantBits /\ e2 > EMaxNormal
                     THEN Inf(sg)
                     ELSE Fin(sg, m2, e2))))

\* a small natural number as a float (exact)
FromNat(n) ==
    RoundFloat(0, BTrim(<<n % LimbBase, (n \div LimbBase) % LimbBase,
                          n \div (LimbBase * LimbBase)>>), 0, FALSE)


FNeg(x) == IF x.k \in {"fin", "inf"} THEN [x EXCEPT !.s = 1 - x.s] ELSE x

\* x + y of two finite floats
FinAdd(x, y) ==
    IF x.m = <<>> THEN (IF y.m = <<>> /\ x.s # y.s THEN Zero ELSE y)
    ELSE IF y.m = <<>> THEN x
    ELSE LET big == IF x.e >= y.e THEN x ELSE y
             small == IF x.e >= y.e THEN y ELSE x
             d == big.e - small.e
         IN  IF d > MantBits + 3
             THEN \* small is below a quarter of big's last place: it only
                  \* decides which way an exact tie would have gone
                  LET n == BShl(big.m, 2)
                  IN  IF big.s = small.s
                      THEN RoundFloat(big.s, n, big.e - 2, TRUE)
                      ELSE Bind(BSub(n, <<1>>), LAMBDA n1 :
                                RoundFloat(big.s, n1, big.e - 2, TRUE))
             ELSE LET a == BShl(big.m, d)
                      b == small.m
                      c == BCmp(a, b)
                  IN  IF big.s = small.s
                      THEN Bind(BAdd(a, b), LAMBDA n :
                                RoundFloat(big.s, n, small.e, FALSE))
                      ELSE IF c = 0 THEN Zero
                      ELSE IF c > 0
                      THEN Bind(BSub(a, b), LAMBDA n :
                                RoundFloat(big.s, n, small.e, FALSE))
                      ELSE Bind(BSub(b, a), LAMBDA n :
                                RoundFloat(small.s, n, small.e, FALSE))

\* Python's x + y on floats
FAdd(x, y) ==
    IF ~IsNum(x) \/ ~IsNum(y) THEN Raise
    ELSE IF IsNaN(x) \/ IsNaN(y) THEN NaN
    ELSE IF IsInf(x) /\ IsInf(y) THEN (IF x.s = y.s THEN x ELSE NaN)
    ELSE IF IsInf(x) THEN x
    ELSE IF IsInf(y) THEN y
    ELSE FinAdd(x, y)

\* Python's x - y on floats
FSub(x, y) == FAdd(x, FNeg(y))

\* Python's x * y on floats
FMul(x, y) ==
    IF ~IsNum(x) \/ ~IsNum(y) THEN Raise
    ELSE IF IsNaN(x) \/ IsNaN(y) THEN NaN
    ELSE LET sg == (x.s + y.s) % 2
         IN  IF IsInf(x) \/ IsInf(y)
             THEN (IF IsZero(x) \/ IsZero(y) THEN NaN ELSE Inf(sg))
             ELSE Bind(BMul(x.m, y.m), LAMBDA n :
                       RoundFloat(sg, n, x.e + y.e, FALSE))

\* Python's x / y on floats: division by zero raises ZeroDivisionError
FDiv(x, y) ==
    IF ~IsNum(x) \/ ~IsNum(y) THEN Raise
    ELSE IF IsZero(y) THEN Raise
    ELSE IF IsNaN(x) \/ IsNaN(y) THEN NaN
    ELSE LET sg == (x.s + y.s) % 2
         IN  IF IsInf(x) THEN (IF IsInf(y) THEN NaN ELSE Inf(sg))
             ELSE IF IsInf(y) \/ x.m = <<>> THEN Fin(sg, <<>>, EMin)
             ELSE LET xs == MantBits - BBitLen(x.m)
                      ys == MantBits - BBitLen(y.m)
                      up == MantBits + 3
                  IN  Bind(BShl(x.m, xs + up), LAMBDA a :
                      Bind(BShl(y.m, ys), LAMBDA b :
                      Bind(BDivMod(a, b), LAMBDA dm :
                           RoundFloat(sg, dm.q, (x.e - xs - up) - (y.e - ys),
                                      dm.r # <<>>))))

\* Python's x > y on floats (false when either is NaN)
FGt(x, y) ==
    IF IsNaN(x) \/ IsNaN(y) THEN FALSE
    ELSE LET d == FSub(x, y)
         IN  IF IsInf(x) /\ IsInf(y) THEN x.s = 0 /\ y.s = 1
             ELSE (IsInf(d) \/ (IsFin(d) /\ d.m # <<>>)) /\ d.s = 0

\* Python's x <= y on floats (false when either is NaN)
FLe(x, y) == ~IsNaN(x) /\ ~IsNaN(y) /\ ~FGt(x, y)

\* Python's truth value: None and zero are false, every other float
\* (NaN included) is true
Truthy(x) == ~IsNone(x) /\ ~IsZero(x)

\* Python's "x or y"
Or(x, y) == IF Truthy(x) THEN x ELSE y

\* the decimal literal n/d, as Python reads it (the nearest float)
Dec(n, d) == FDiv(FromNat(n), FromNat(d))

One == FromNat(1)

\* Python's max(a, b): b when b > a, else a
PyMax(a, b) == IF FGt(b, a) THEN b ELSE a

\* ------------------------------------------------------------------------
\* Text: a string is a sequence of one-character strings.
\* ------------------------------------------------------------------------

Uppers == <<"A", "B", "C", "D", "E", "F", "G", "H", "I", "J", "K", "L", "M", "N", "O", "P", "Q", "R", "S", "T", "U", "V", "W", "X", "Y", "Z">>
Lowers == <<"a", "b", "c", "d", "e", "f", "g", "h", "i", "j", "k", "l", "m", "n", "o", "p", "q", "r", "s", "t", "u", "v", "w", "x", "y", "z">>
Whitespace == {" ", "\t", "\n"}

LowerChar(c) ==
    IF \E i \in 1..Len(Uppers) : Uppers[i] = c
    THEN Lowers[CHOOSE i \in 1..Len(Uppers) : Uppers[i] = c] ELSE c

UpperChar(c) ==
    IF \E i \in 1..Len(Lowers) : Lowers[i] = c
    THEN Uppers[CHOOSE i \in 1..Len(Lowers) : Lowers[i] = c] ELSE c

\* str.lower(), str.upper()
Lower(t) == [i \in 1..Len(t) |-> LowerChar(t[i])]
Upper(t) == [i \in 1..Len(t) |-> UpperChar(t[i])]

\* str.strip(): leading and trailing whitespace removed
Strip(t) ==
    LET ink == {i \in 1..Len(t) : t[i] \notin Whitespace}
    IN  IF ink = {} THEN <<>>
        ELSE SubSeq(t, CHOOSE i \in ink : \A j \in ink : i <= j,
                       CHOOSE i \in ink : \A j \in ink : j <= i)

\* str.replace(c, "")
Remove(t, c) == SelectSeq(t, LAMBDA x : x # c)

\* _normalize_label
normalize_label(label) == Remove(Remove(Lower(Strip(label)), " "), "_")

debt_labels ==
    { <<"t", "o", "t", "a", "l", "d", "e", "b", "t">>,
      <<"l", "o", "n", "g", "t", "e", "r", "m", "d", "e", "b", "t">>,
      <<"s", "h", "o", "r", "t", "l", "o", "n", "g", "t", "e", "r", "m", "d", "e", "b", "t", "t", "o", "t", "a", "l">>,
      <<"l", "o", "n", "g", "t", "e", "r", "m", "d", "e", "b", "t", "t", "o", "t", "a", "l">>,
      <<"s", "h", "o", "r", "t", "t", "e", "r", "m", "d", "e", "b", "t", "t", "o", "t", "a", "l">> }

\* ------------------------------------------------------------------------
\* Balance sheets: a pandas DataFrame, or None.  index is the row labels,
\* columns the reporting dates (most recent first), data[i][j] the cell of
\* row i and column j.
\* ------------------------------------------------------------------------

NoFrame == [isNone |-> TRUE, index |-> <<>>, columns |-> <<>>, data |-> <<>>]
Frame(idx, cols, cells) ==
    [isNone |-> FALSE, index |-> idx, columns |-> cols, data |-> cells]

\* DataFrame.empty: an axis has no entry
FrameEmpty(f) == Len(f.index) = 0 \/ Len(f.columns) = 0

\* DataFrame.loc[label, column]: the cell when one row carries the label;
\* with several it is a Series, on which math.isnan raises TypeError
Loc(f, label, column) ==
    LET rows == {i \in 1..Len(f.index) : f.index[i] = label}
        cols == {j \in 1..Len(f.columns) : f.columns[j] = column}
    IN  IF Cardinality(rows) = 1 /\ Cardinality(cols) = 1
        THEN f.data[CHOOSE i \in rows : TRUE][CHOOSE j \in cols : TRUE]
        ELSE Raise

\* float(value), whatever the value
float_always(value) == value

\* "float(value) if not math.isnan(value) else None"; isnan of a Series raises
float_or_none(value) ==
    IF IsRaise(value) THEN Raise
    ELSE IF ~IsNaN(value) THEN value ELSE None

\* the loop of _extract_total_debt over balance_sheet.index, from row i
RECURSIVE ExtractFrom(_, _)
ExtractFrom(f, i) ==
    IF i > Len(f.index) THEN None
    ELSE IF normalize_label(f.index[i]) \in debt_labels
    THEN float_or_none(Loc(f, f.index[i], f.columns[1]))
    ELSE ExtractFrom(f, i + 1)

extract_total_debt(balance_sheet) ==
    IF balance_sheet.isNone \/ FrameEmpty(balance_sheet) THEN None
    ELSE ExtractFrom(balance_sheet, 1)

\* _get_first_balance_sheet: the annual statement, else the quarterly
get_first_balance_sheet(ticker) ==
    IF ~ticker.balance_sheet.isNone /\ ~FrameEmpty(ticker.balance_sheet)
    THEN ticker.balance_sheet
    ELSE IF ~ticker.quarterly_balance_sheet.isNone
            /\ ~FrameEmpty(ticker.quarterly_balance_sheet)
    THEN ticker.quarterly_balance_sheet
    ELSE NoFrame

\* ------------------------------------------------------------------------
\* The data source: what yf.Ticker(symbol) returns.  fast_info and the
\* result of get_info() are dicts or None; a key that is missing reads as
\* None through .get.  history is the "Close" column of history("5d").
\* ------------------------------------------------------------------------

EmptyFastInfo ==
    [isNone |-> FALSE, last_price |-> None, previous_close |-> None,
     shares_outstanding |-> None, market_cap |-> None, beta |-> None]
NoFastInfo == [EmptyFastInfo EXCEPT !.isNone = TRUE]
EmptyInfo == [isNone |-> FALSE, beta |-> None]
NoInfo == [isNone |-> TRUE, beta |-> None]

\* "d or {}"
OrEmpty(d, empty) == IF d.isNone THEN empty ELSE d

\* d.get(key): AttributeError when d is None
Get(d, key) == IF d.isNone THEN Raise ELSE d[key]

\* recent["Close"].iloc[-1]: IndexError on an empty column
ILocLast(column) == IF column = <<>> THEN Raise ELSE column[Len(column)]

\* price * shares_outstanding: TypeError when an operand is None
PyMul(x, y) == FMul(x, y)

Metrics(p, so, mc, b, td) ==
    [price |-> p, shares_outstanding |-> so, market_cap |-> mc, beta |-> b,
     total_debt |-> td]

\* the call raised instead of returning a record
Raised == Metrics(Raise, Raise, Raise, Raise, Raise)

fetch_ticker_metrics(ticker) ==
    LET fast_info == OrEmpty(ticker.fast_info, EmptyFastInfo)
        price0 == Or(Get(fast_info, "last_price"),
                     Get(fast_info, "previous_close"))
        price == IF IsNone(price0)
                 THEN (IF ticker.history # <<>> THEN ILocLast(ticker.history)
                       ELSE price0)
                 ELSE price0
        shares_outstanding == Get(fast_info, "shares_outstanding")
        market_cap0 == Get(fast_info, "market_cap")
        market_cap == IF IsNone(market_cap0) /\ ~IsNone(price)
                         /\ Truthy(shares_outstanding)
                      THEN PyMul(price, shares_outstanding)
                      ELSE market_cap0
        info == OrEmpty(ticker.info, EmptyInfo)
        beta == Or(Get(info, "beta"), Get(fast_info, "beta"))
        balance_sheet == get_first_balance_sheet(ticker)
        total_debt == extract_total_debt(balance_sheet)
        rec == Metrics(price, shares_outstanding, market_cap, beta, total_debt)
    IN  IF \E v \in {price, shares_outstanding, market_cap, beta, total_debt} :
              IsRaise(v)
        THEN Raised ELSE rec

\* ------------------------------------------------------------------------
\* calculate_wacc
\* ------------------------------------------------------------------------

\* the weight without the guard on a zero total capital
weight_unguarded(value, total_capital) == FDiv(value, total_capital)

\* "value / total_capital if total_capital else 0"
weight(value, total_capital) ==
    IF Truthy(total_capital) THEN FDiv(value, total_capital) ELSE Zero

calculate_wacc(market_cap, total_debt, risk_free_rate, market_risk_premium, cost_of_debt, tax_rate, beta) ==
    LET equity_value == market_cap
        debt_value == PyMax(total_debt, Zero)
        total_capital == FAdd(equity_value, debt_value)
        equity_weight == weight(equity_value, total_capital)
        debt_weight == weight(debt_value, total_capital)
        cost_of_equity == FAdd(risk_free_rate, FMul(beta, market_risk_premium))
        after_tax_cost_of_debt == FMul(cost_of_debt, FSub(One, tax_rate))
        wacc == FAdd(FMul(equity_weight, cost_of_equity),
                     FMul(debt_weight, after_tax_cost_of_debt))
    IN  [equity_weight |-> equity_weight,
         debt_weight |-> debt_weight,
         cost_of_equity |-> cost_of_equity,
         after_tax_cost_of_debt |-> after_tax_cost_of_debt,
         wacc |-> wacc]

\* ------------------------------------------------------------------------
\* State
\* ------------------------------------------------------------------------

VARIABLES
    pc,       \* "page": the app is serving; "ready"/"done": one function call
    input,    \* the argument of the function call under study
    result,   \* what the call returned
    now,      \* wall-clock seconds since the app started
    cache,    \* st.cache_data store of fetch_ticker_metrics: symbol -> entry
    queries,  \* symbol -> the queries the data source answered, oldest first
    out       \* what the page shows after the last submission

vars == <<pc, input, result, now, cache, queries, out>>

\* no call of calculate_wacc
NoCall ==
    [market_cap |-> None, total_debt |-> None, risk_free_rate |-> None,
     market_risk_premium |-> None, cost_of_debt |-> None, tax_rate |-> None,
     beta |-> None]

\* the rendered page: nothing submitted yet
Idle ==
    [kind |-> "idle", ticker |-> <<>>, ticker_symbol |-> <<>>,
     manual_market_cap |-> None, at |-> 0, queried |-> FALSE,
     metrics |-> Metrics(None, None, None, None, None),
     market_cap |-> None, called |-> FALSE, call |-> NoCall]

AppIdle ==
    /\ now = 0 /\ cache = [s \in {} |-> None] /\ queries = [s \in {} |-> <<>>]
    /\ out = Idle
AppUnchanged == UNCHANGED <<now, cache, queries, out>>

\* ------------------------------------------------------------------------
\* calculate_wacc on its own
\* ------------------------------------------------------------------------

MaxTenths == 6
Huge == Fin(0, BShl(<<1>>, MantBits - 1), EMaxNormal)
Tenths == {Dec(n, 10) : n \in 0..MaxTenths}

WaccMarketCaps ==
    Tenths \cup {FromNat(5), FNeg(FromNat(5)), FNeg(FromNat(10)), Huge, NaN,
                 Inf(0)}
WaccDebts ==
    Tenths \cup {FromNat(5), FromNat(13), FNeg(FromNat(3)), Huge, NaN}

WaccInputs ==
    [market_cap : WaccMarketCaps, total_debt : WaccDebts,
     risk_free_rate : {Dec(4, 100)}, market_risk_premium : {Dec(5, 100)},
     cost_of_debt : {Dec(4, 100)}, tax_rate : {Dec(25, 100)},
     beta : {Dec(12, 10)}]

InitWacc ==
    /\ pc = "ready" /\ input \in WaccInputs /\ result = None
    /\ AppIdle

CalculateWacc ==
    /\ pc = "ready"
    /\ result' = calculate_wacc(input.market_cap, input.total_debt,
                                input.risk_free_rate, input.market_risk_premium,
                                input.cost_of_debt, input.tax_rate, input.beta)
    /\ pc' = "done"
    /\ UNCHANGED input
    /\ AppUnchanged

NextWacc == CalculateWacc
SpecWacc == InitWacc /\ [][NextWacc]_vars

\* ---- C1 ----------------------------------------------------------------

FAbs(x) == IF IsFin(x) \/ IsInf(x) THEN [x EXCEPT !.s = 0] ELSE x

\* 2^-52, the spacing of the floats just above 1
Epsilon == Fin(0, BShl(<<1>>, MantBits - 1), 0 - 2 * (MantBits - 1))

\* equityValue + debtValue of the call in input
WaccTotal == FAdd(input.market_cap, PyMax(input.total_debt, Zero))
WaccWeightSum == FAdd(result.equity_weight, result.debt_weight)
WaccZeroWeights ==
    IsZero(WaccTotal) => IsZero(result.equity_weight) /\ IsZero(result.debt_weight)

\* C1 as stated: for every input of calculate_wacc, when equityValue +
\* debtValue > 0 the returned weights add up to exactly 1, and when it is 0
\* both weights are 0 and no division error occurs.
C1_WeightsSumToOne ==
    pc = "done" =>
        /\ FGt(WaccTotal, Zero) => WaccWeightSum = One
        /\ WaccZeroWeights

\* C1 amended: for a finite market_cap >= 0 and a finite total capital > 0
\* the returned weights add up to 1 within one rounding step, that is
\* |equity_weight + debt_weight - 1| <= 2^-52; when total capital is 0 both
\* weights are 0 and no division error occurs.
C1_WeightsSumWithinRounding ==
    pc = "done" =>
        /\ (/\ IsFin(input.market_cap) /\ ~FGt(Zero, input.market_cap)
            /\ IsFin(WaccTotal) /\ FGt(WaccTotal, Zero))
           => FLe(FAbs(FSub(WaccWeightSum, One)), Epsilon)
        /\ WaccZeroWeights

\* a call whose weights add up to a float next to 1, and not to 1
C1_RoundedSumReached ==
    /\ pc = "done"
    /\ IsFin(input.market_cap) /\ FGt(input.market_cap, Zero)
    /\ IsFin(WaccTotal)
    /\ IsFin(WaccWeightSum) /\ WaccWeightSum # One
    /\ FLe(FAbs(FSub(WaccWeightSum, One)), Epsilon)

\* ------------------------------------------------------------------------
\* _extract_total_debt on its own: balance sheets of up to MaxRows rows
\* taken from RowPool in every order, two reporting columns
\* ------------------------------------------------------------------------

MaxRows == 3
Columns == <<"2024", "2023">>

TotalDebtRow == [label |-> <<"T", "o", "t", "a", "l", " ", "D", "e", "b", "t">>,
                 cells |-> <<FromNat(7), FromNat(6)>>]
LongTermDebtRow == [label |-> <<"L", "o", "n", "g", " ", "T", "e", "r", "m", " ", "D", "e", "b", "t">>,
                    cells |-> <<FromNat(5), FromNat(4)>>]
ShortLongRow == [label |-> <<"s", "h", "o", "r", "t", "_", "l", "o", "n", "g", "_", "t", "e", "r", "m", "_", "d", "e", "b", "t", "_", "t", "o", "t", "a", "l">>,
                 cells |-> <<FromNat(3), NaN>>]
ShortTermRow == [label |-> <<" ", "S", "H", "O", "R", "T", " ", "T", "E", "R", "M", " ", "D", "E", "B", "T", " ", "T", "O", "T", "A", "L", " ">>,
                 cells |-> <<NaN, FromNat(2)>>]
AssetsRow == [label |-> <<"T", "o", "t", "a", "l", " ", "A", "s", "s", "e", "t", "s">>,
              cells |-> <<FromNat(9), FromNat(8)>>]
LongTermNaNRow == [label |-> <<"L", "o", "n", "g", " ", "T", "e", "r", "m", " ", "D", "e", "b", "t">>,
                   cells |-> <<NaN, FromNat(4)>>]

RowPool == <<TotalDebtRow, LongTermDebtRow, ShortLongRow, ShortTermRow, AssetsRow>>

Sheet(rows) ==
    Frame([i \in 1..Len(rows) |-> rows[i].label], Columns,
          [i \in 1..Len(rows) |-> rows[i].cells])

RowOrders ==
    UNION {{o \in [1..n -> 1..Len(RowPool)] :
                \A i, j \in 1..n : i # j => o[i] # o[j]} : n \in 0..MaxRows}

DebtInputs ==
    {NoFrame, Frame(<<>>, <<>>, <<>>)}
        \cup {Sheet([i \in 1..Len(o) |-> RowPool[o[i]]]) : o \in RowOrders}

InitDebt ==
    /\ pc = "ready" /\ input \in DebtInputs /\ result = None
    /\ AppIdle

ExtractDebt ==
    /\ pc = "ready"
    /\ result' = extract_total_debt(input)
    /\ pc' = "done"
    /\ UNCHANGED input
    /\ AppUnchanged

NextDebt == ExtractDebt
SpecDebt == InitDebt /\ [][NextDebt]_vars

\* ---- C6 ----------------------------------------------------------------

PriorityOrder ==
    << <<"t", "o", "t", "a", "l", "d", "e", "b", "t">>,
       <<"l", "o", "n", "g", "t", "e", "r", "m", "d", "e", "b", "t">>,
       <<"s", "h", "o", "r", "t", "l", "o", "n", "g", "t", "e", "r", "m", "d", "e", "b", "t", "t", "o", "t", "a", "l">>,
       <<"l", "o", "n", "g", "t", "e", "r", "m", "d", "e", "b", "t", "t", "o", "t", "a", "l">>,
       <<"s", "h", "o", "r", "t", "t", "e", "r", "m", "d", "e", "b", "t", "t", "o", "t", "a", "l">> >>

Rank(label) == CHOOSE r \in 1..Len(PriorityOrder) : PriorityOrder[r] = label

\* the rows of sheet f that carry a debt label
DebtRows(f) ==
    {i \in 1..Len(f.index) : normalize_label(f.index[i]) \in debt_labels}

\* C6 as stated: among the rows carrying one of the five debt labels, the
\* value returned is that of the row whose label comes first in the order
\* total debt, long-term debt, short/long-term debt total, long-term debt
\* total, short-term debt total, read in the most recent column, whatever
\* the order of the rows.
C6_SelectsByLabelPriority ==
    (pc = "done" /\ ~input.isNone /\ DebtRows(input) # {}) =>
        LET best == CHOOSE i \in DebtRows(input) : \A j \in DebtRows(input) :
                        Rank(normalize_label(input.index[i]))
                            <= Rank(normalize_label(input.index[j]))
            cell == input.data[best][1]
        IN  result = IF IsNaN(cell) THEN None ELSE cell

\* ------------------------------------------------------------------------
\* fetch_ticker_metrics on its own: every combination of the snapshot
\* fields, the price history, the company info and the balance sheets below
\* ------------------------------------------------------------------------

FastInfos ==
    {NoFastInfo} \cup
    [isNone : {FALSE},
     last_price : {None, Zero, FromNat(150)},
     previous_close : {None, FromNat(149)},
     shares_outstanding : {None, Zero, FromNat(1000000)},
     market_cap : {None, Zero, FromNat(2500)},
     beta : {None, Dec(12, 10)}]

Histories == {<<>>, <<FromNat(148), FromNat(151)>>, <<FromNat(148), NaN>>}

Infos == {NoInfo, EmptyInfo, [EmptyInfo EXCEPT !.beta = Zero],
          [EmptyInfo EXCEPT !.beta = Dec(11, 10)]}

AnnualSheets ==
    {NoFrame, Sheet(<<>>), Sheet(<<AssetsRow>>), Sheet(<<LongTermNaNRow>>),
     Sheet(<<AssetsRow, TotalDebtRow>>)}

QuarterlySheets == {NoFrame, Sheet(<<ShortLongRow>>)}

Tickers ==
    [fast_info : FastInfos, history : Histories, info : Infos,
     balance_sheet : AnnualSheets, quarterly_balance_sheet : QuarterlySheets]

InitFetch ==
    /\ pc = "ready" /\ input \in Tickers /\ result = None
    /\ AppIdle

Fetch ==
    /\ pc = "ready"
    /\ result' = fetch_ticker_metrics(input)
    /\ pc' = "done"
    /\ UNCHANGED input
    /\ AppUnchanged

NextFetch == Fetch
SpecFetch == InitFetch /\ [][NextFetch]_vars

\* ---- C5 ----------------------------------------------------------------

\* what the data source holds, read without the code under study
SnapshotField(key) ==
    IF input.fast_info.isNone THEN None ELSE input.fast_info[key]
InfoBeta == IF input.info.isNone THEN None ELSE input.info.beta
UsableSheets ==
    {f \in {input.balance_sheet, input.quarterly_balance_sheet} :
        ~f.isNone /\ f.index # <<>>}
DebtCells ==
    UNION {{f.data[i][1] : i \in DebtRows(f)} : f \in UsableSheets}

PriceUnavailable ==
    /\ IsNone(SnapshotField("last_price"))
    /\ IsNone(SnapshotField("previous_close"))
    /\ input.history = <<>>
SharesUnavailable == IsNone(SnapshotField("shares_outstanding"))
MarketCapUnavailable ==
    /\ IsNone(SnapshotField("market_cap"))
    /\ PriceUnavailable \/ SharesUnavailable
BetaUnavailable == IsNone(InfoBeta) /\ IsNone(SnapshotField("beta"))
DebtUnavailable == \A c \in DebtCells : IsNaN(c)

\* C5: fetch_ticker_metrics never raises because of missing upstream data:
\* for every combination of absent snapshot fields, empty price history,
\* absent company info, empty or absent balance sheets and a NaN debt cell
\* it returns a record in which each unavailable field is None; a matching
\* debt row whose most recent value is NaN gives total_debt = None.
C5_MissingDataGivesNone ==
    pc = "done" =>
        /\ result # Raised
        /\ PriceUnavailable => IsNone(result.price)
        /\ SharesUnavailable => IsNone(result.shares_outstanding)
        /\ MarketCapUnavailable => IsNone(result.market_cap)
        /\ BetaUnavailable => IsNone(result.beta)
        /\ DebtUnavailable => IsNone(result.total_debt)

\* nothing upstream but a debt row whose most recent cell is NaN
C5_NaNDebtCellReached ==
    /\ pc = "done"
    /\ input.fast_info.isNone /\ input.history = <<>> /\ input.info.isNone
    /\ input.balance_sheet = Sheet(<<LongTermNaNRow>>)
    /\ input.quarterly_balance_sheet.isNone
    /\ result = Metrics(None, None, None, None, None)

\* ---- C7 ----------------------------------------------------------------

\* C7 as stated: market_cap is the snapshot's market cap when the snapshot
\* has one; when it is absent and both price and shares_outstanding are
\* present, whatever their values, 0 included, market_cap is price *
\* shares_outstanding; otherwise it is absent.
C7_MarketCapDerived ==
    pc = "done" =>
        IF ~IsNone(SnapshotField("market_cap"))
        THEN result.market_cap = SnapshotField("market_cap")
        ELSE IF ~IsNone(result.price) /\ ~IsNone(result.shares_outstanding)
        THEN result.market_cap = FMul(result.price, result.shares_outstanding)
        ELSE IsNone(result.market_cap)

\* ------------------------------------------------------------------------
\* The app: form submissions against the cached fetcher, and time passing
\* ------------------------------------------------------------------------

TTL == 300
MaxTime == 300
TickSteps == {TTL - 1, TTL}

RawTickers == { <<" ", " ">>, <<" ", "a", "a", "p", "l", " ">>, <<"M", "S", "F", "T">> }
ManualMarketCaps == {Zero, FromNat(9000)}
Percents == {FromNat(3), FromNat(4), FromNat(5), FromNat(25)}

Forms ==
    [ticker : RawTickers,
     risk_free_rate_pct : {FromNat(4), FromNat(3)},
     market_risk_premium_pct : {FromNat(5)},
     cost_of_debt_pct : {FromNat(4)},
     tax_rate_pct : {FromNat(25)},
     manual_market_cap : ManualMarketCaps]

\* "pct / 100", tabulated over the percentages the forms carry
as_rate == [p \in Percents |-> FDiv(p, FromNat(100))]

ZeroDebtRow == [label |-> <<"T", "o", "t", "a", "l", " ", "D", "e", "b", "t">>,
                cells |-> <<Zero, FromNat(6)>>]

Snapshot(lp, so, mc, b) ==
    [isNone |-> FALSE, last_price |-> lp, previous_close |-> None,
     shares_outstanding |-> so, market_cap |-> mc, beta |-> b]
Upstream(fi, hist, inf, annual, quarterly) ==
    [fast_info |-> fi, history |-> hist, info |-> inf,
     balance_sheet |-> annual, quarterly_balance_sheet |-> quarterly]

\* what the data source may answer to a query
AppTickers ==
    { \* everything present
      Upstream(Snapshot(FromNat(150), FromNat(1000000), FromNat(2500), Dec(12, 10)),
               <<FromNat(148)>>, [EmptyInfo EXCEPT !.beta = Dec(11, 10)],
               Sheet(<<AssetsRow, TotalDebtRow>>), NoFrame),
      \* nothing present
      Upstream(NoFastInfo, <<>>, NoInfo, NoFrame, NoFrame),
      \* a beta of 0 and a total debt of 0
      Upstream(Snapshot(FromNat(150), None, FromNat(2500), Zero),
               <<>>, EmptyInfo, Sheet(<<ZeroDebtRow>>), NoFrame),
      \* the only price is a NaN close
      Upstream(Snapshot(None, FromNat(1000000), None, Dec(12, 10)),
               <<FromNat(148), NaN>>, NoInfo, NoFrame, Sheet(<<ShortLongRow>>)),
      \* a market cap of 0
      Upstream(Snapshot(None, None, Zero, Dec(12, 10)),
               <<>>, NoInfo, NoFrame, NoFrame),
      \* a negative market cap
      Upstream(Snapshot(None, None, FNeg(FromNat(2500)), None),
               <<>>, NoInfo, NoFrame, NoFrame) }

\* fetch_ticker_metrics, tabulated over the answers of the data source
fetched == [ticker \in AppTickers |-> fetch_ticker_metrics(ticker)]

\* the ticker text as typed, upper-cased only
ticker_symbol_unstripped(raw) == Upper(raw)

\* st.text_input(...).strip().upper()
ticker_symbol_of(raw) == Upper(Strip(raw))

\* a cache that never answers
cache_never_fresh(entry, t) == FALSE

\* st.cache_data(ttl=300): an entry answers while it is younger than ttl
cache_fresh(entry, t) == t - entry.at < TTL

\* the fetched market cap first, the override second
resolve_market_cap_fetched_first(manual_market_cap, metrics) ==
    Or(metrics.market_cap, manual_market_cap)

\* manual_market_cap or metrics.get("market_cap")
resolve_market_cap(manual_market_cap, metrics) ==
    Or(manual_market_cap, metrics.market_cap)

\* a missing beta read as 0
beta_or_zero(metrics) == Or(metrics.beta, Zero)

\* metrics.get("beta") or 1.0
beta_or_default(metrics) == Or(metrics.beta, One)

\* metrics.get("total_debt") or 0.0
debt_or_default(metrics) == Or(metrics.total_debt, Zero)

Init ==
    /\ pc = "page" /\ input = None /\ result = None
    /\ AppIdle

\* the page after a submission of form f at the current time
Page(f, kind) ==
    [Idle EXCEPT !.kind = kind, !.ticker = f.ticker,
                 !.ticker_symbol = ticker_symbol_of(f.ticker),
                 !.manual_market_cap = f.manual_market_cap, !.at = now]

\* the branch of the submit handler that follows a fetched record
Resolved(f, metrics, queried) ==
    LET market_cap == resolve_market_cap(f.manual_market_cap, metrics)
        page == [Page(f, "market_cap_error") EXCEPT
                        !.queried = queried, !.metrics = metrics,
                        !.market_cap = market_cap]
    IN  IF IsNone(market_cap) \/ FLe(market_cap, Zero)
        THEN page
        ELSE [page EXCEPT
                !.kind = "success",
                !.called = TRUE,
                !.call = [market_cap |-> market_cap,
                          total_debt |-> debt_or_default(metrics),
                          risk_free_rate |-> as_rate[f.risk_free_rate_pct],
                          market_risk_premium |->
                              as_rate[f.market_risk_premium_pct],
                          cost_of_debt |-> as_rate[f.cost_of_debt_pct],
                          tax_rate |-> as_rate[f.tax_rate_pct],
                          beta |-> beta_or_default(metrics)]]

\* a submission answered from the cache entry of the symbol
Cached(f, ticker_symbol) ==
    /\ out' = Resolved(f, cache[ticker_symbol].value, FALSE)
    /\ UNCHANGED <<cache, queries>>

\* a submission that runs fetch_ticker_metrics; ticker is what the data
\* source answers
Fetched(f, ticker_symbol, ticker) ==
    LET metrics == fetched[ticker]
        asked == IF ticker_symbol \in DOMAIN queries
                 THEN queries[ticker_symbol] ELSE <<>>
    IN  /\ queries' = [s \in DOMAIN queries \cup {ticker_symbol} |->
                          IF s = ticker_symbol
                          THEN Append(asked, [at |-> now, value |-> metrics])
                          ELSE queries[s]]
        /\ cache' = IF metrics = Raised THEN cache
                    ELSE [s \in DOMAIN cache \cup {ticker_symbol} |->
                             IF s = ticker_symbol
                             THEN [value |-> metrics, at |-> now]
                             ELSE cache[s]]
        /\ out' = IF metrics = Raised
                  THEN [Page(f, "exception") EXCEPT !.queried = TRUE]
                  ELSE Resolved(f, metrics, TRUE)

\* the submit handler
Submit(f) ==
    /\ pc = "page"
    /\ LET ticker_symbol == ticker_symbol_of(f.ticker)
       IN  IF ticker_symbol = <<>>
           THEN /\ out' = Page(f, "ticker_error")
                /\ UNCHANGED <<cache, queries>>
           ELSE IF /\ ticker_symbol \in DOMAIN cache
                   /\ cache_fresh(cache[ticker_symbol], now)
           THEN Cached(f, ticker_symbol)
           ELSE \E ticker \in AppTickers : Fetched(f, ticker_symbol, ticker)
    /\ UNCHANGED <<pc, input, result, now>>

\* time passes
Tick(d) ==
    /\ pc = "page"
    /\ now + d <= MaxTime
    /\ now' = now + d
    /\ UNCHANGED <<pc, input, result, cache, queries, out>>

Next ==
    \/ \E f \in Forms : Submit(f)
    \/ \E d \in TickSteps : Tick(d)

Spec == Init /\ [][Next]_vars

\* what the page displays after a successful submission
wacc_inputs ==
    calculate_wacc(out.call.market_cap, out.call.total_debt,
                   out.call.risk_free_rate, out.call.market_risk_premium,
                   out.call.cost_of_debt, out.call.tax_rate, out.call.beta)

\* the last submission reached the fetcher and got a record
GotMetrics == out.kind \in {"market_cap_error", "success"}

\* ---- C2 ----------------------------------------------------------------

\* C2: the data source is queried at most once per ticker symbol per 300 s
\* window, and a submission for a symbol fetched less than 300 s earlier
\* shows the record of that fetch without a new query, whatever percentages
\* and market-cap override it carries.
C2_FetchedOncePerWindow ==
    /\ \A s \in DOMAIN queries : \A i, j \in 1..Len(queries[s]) :
           i < j => queries[s][j].at - queries[s][i].at >= TTL
    /\ GotMetrics =>
           /\ out.ticker_symbol \in DOMAIN queries
           /\ LET last == queries[out.ticker_symbol]
                              [Len(queries[out.ticker_symbol])]
              IN  /\ out.metrics = last.value
                  /\ out.at - last.at \in 0..(TTL - 1)
                  /\ out.queried => last.at = out.at
                  /\ last.at < out.at => ~out.queried

\* a submission with an override, answered from a record fetched 299 s
\* earlier, with two submissions for the symbol and one query
C2_CacheHitReached ==
    /\ out.kind = "success" /\ ~out.queried
    /\ Truthy(out.manual_market_cap)
    /\ Len(queries[out.ticker_symbol]) = 1
    /\ out.at - queries[out.ticker_symbol][1].at = TTL - 1

\* ---- C3 ----------------------------------------------------------------

\* C3 as stated: on a submission with a non-empty ticker, if the market cap
\* is neither fetched nor overridden, or the resolved value is <= 0, an
\* error is reported and calculate_wacc is not invoked; and calculate_wacc
\* is only ever invoked with a market_cap that is strictly positive.
C3_CalledOnlyWithPositiveMarketCap ==
    /\ (GotMetrics /\ (IsNone(out.market_cap) \/ FLe(out.market_cap, Zero)))
           => out.kind = "market_cap_error" /\ ~out.called
    /\ out.called => FGt(out.call.market_cap, Zero)

\* ---- C4 ----------------------------------------------------------------

\* C4: a submission whose ticker is empty after trimming reports an error
\* and attempts neither the fetch nor the computation: the cache and the
\* data source's queries are as before.
C4_EmptyTickerRejected ==
    [][(out' # out /\ Strip(out'.ticker) = <<>>) =>
           /\ out'.kind = "ticker_error"
           /\ ~out'.queried /\ ~out'.called
           /\ cache' = cache /\ queries' = queries]_vars

\* a blank ticker rejected while the cache holds a record
C4_BlankTickerReached ==
    /\ out.kind = "ticker_error" /\ out.ticker = <<" ", " ">>
    /\ DOMAIN cache # {} /\ DOMAIN queries # {}

\* ---- C8 ----------------------------------------------------------------

\* C8: when the market cap resolves to a positive value, a fetched record
\* without beta or without total_debt is no error: calculate_wacc is
\* invoked, with beta = 1.0 when beta is missing and total_debt = 0.0 when
\* total_debt is missing, and the result is displayed.
C8_MissingBetaAndDebtDefaulted ==
    (GotMetrics /\ FGt(out.market_cap, Zero)) =>
        /\ out.kind = "success" /\ out.called
        /\ IsNone(out.metrics.beta) => out.call.beta = One
        /\ IsNone(out.metrics.total_debt) => out.call.total_debt = Zero

\* a result displayed from a record with neither beta nor total_debt
C8_DefaultsReached ==
    /\ out.kind = "success" /\ out.called
    /\ IsNone(out.metrics.beta) /\ IsNone(out.metrics.total_debt)
    /\ out.call.beta = One /\ out.call.total_debt = Zero

\* ---- C9 ----------------------------------------------------------------

\* C9: with a manual override of 0 the equity value passed to
\* calculate_wacc is the fetched market cap; with an override above 0 it is
\* the override, whether the fetched market cap is present, absent, zero or
\* negative.
C9_OverrideWins ==
    GotMetrics =>
        /\ FGt(out.manual_market_cap, Zero) =>
               /\ out.called
               /\ out.call.market_cap = out.manual_market_cap
        /\ IsZero(out.manual_market_cap) =>
               /\ out.market_cap = out.metrics.market_cap
               /\ out.called => out.call.market_cap = out.metrics.market_cap

\* an override passed in place of a fetched market cap that is present
C9_OverrideReached ==
    /\ out.called
    /\ FGt(out.manual_market_cap, Zero)
    /\ FGt(out.metrics.market_cap, Zero)
    /\ out.metrics.market_cap # out.manual_market_cap
    /\ out.call.market_cap = out.manual_market_cap

\* ---- C10 ---------------------------------------------------------------

SameNumber(x, y) == x = y \/ (IsZero(x) /\ IsZero(y))

\* C10 as stated: a fetched beta, whatever number it is, 0 included, and a
\* fetched total_debt are passed to calculate_wacc as they are; 1.0 and 0.0
\* stand in only for an absent field, so that cost_of_equity is
\* risk_free_rate + fetched beta * market_risk_premium.
C10_PresentValuesPassedExactly ==
    out.called =>
        /\ IF IsNone(out.metrics.total_debt)
           THEN out.call.total_debt = Zero
           ELSE SameNumber(out.call.total_debt, out.metrics.total_debt)
        /\ IF IsNone(out.metrics.beta)
           THEN out.call.beta = One
           ELSE /\ SameNumber(out.call.beta, out.metrics.beta)
                /\ wacc_inputs.cost_of_equity =
                       FAdd(out.call.risk_free_rate,
                            FMul(out.metrics.beta, out.call.market_risk_premium))

====
